---------------------------- MODULE Spec2Model ----------------------------
(***************************************************************************)
(* A model of globus_sdk/services/gcs/response.py: the default unpacking   *)
(* matcher (_default_unpacking_match) and the lazily unpacking response    *)
(* wrapper (UnpackingGCSResponse).                                         *)
(*                                                                         *)
(* Three specifications share the module:                                  *)
(*   Spec       one caller; every handler is one atomic action             *)
(*   SpecMatch  the default matcher as a pure function of pattern and item *)
(*   SpecMT     two threads running the `data` property without a lock,    *)
(*              one attribute read or write per step                       *)
(***************************************************************************)
EXTENDS Integers, Sequences, FiniteSets, TLC

VARIABLES
    _parsed_json,    \* GlobusHTTPResponse._parsed_json (None when the body is no JSON)
    match,           \* the `match` argument handed to __init__
    obj,             \* "new": not constructed, "live": constructed, "failed": __init__ raised
    _match_func,     \* self._match_func
    _unpacked_data,  \* self._unpacked_data: None or a reference to an element
    _did_unpack,     \* self._did_unpack
    scans,           \* history: number of _unpack() runs
    calls,           \* history: the predicate calls <<index, answer>> of the latest _unpack() run
    first,           \* history: the object `data` resolved to the first time it resolved
    accesses,        \* history: number of `data` / item accesses started
    raises,          \* history: number of those that ended in the predicate's exception
    last,            \* history: the last operation and what the caller got
    pc,              \* SpecMT: each thread's position inside the `data` property
    local,           \* SpecMT: each thread's value of the running expression
    m_item,          \* SpecMatch: the mapping handed to match_func
    m_result         \* SpecMatch: what match_func answered

vars == <<_parsed_json, match, obj, _match_func, _unpacked_data, _did_unpack,
          scans, calls, first, accesses, raises, last, pc, local, m_item, m_result>>

---------------------------------------------------------------------------
(* Bounds of the model *)

MaxItems == 3       \* longest "data" list drawn in Spec
MaxItemsMT == 2     \* longest "data" list drawn in SpecMT
MaxAccesses == 2    \* `data` / item accesses per wrapper
MaxPatLen == 3      \* longest pattern string drawn in SpecMatch
MaxStrLen == 3      \* longest DATA_TYPE string drawn in SpecMatch

---------------------------------------------------------------------------
(* JSON values.  A string is its sequence of characters, so that a regular *)
(* expression can be run over it.  A mapping is a total function over Keys *)
(* that sends the keys it does not hold to Absent.                         *)

Keys == {"DATA_TYPE", "data", "detail", "display_name"}

Null == [t |-> "null"]
Absent == [t |-> "absent"]
Str(s) == [t |-> "str", s |-> s]
Num(n) == [t |-> "num", n |-> n]
List(items) == [t |-> "list", items |-> items]
Dict(f) == [t |-> "dict", f |-> f]

NoKeys == [k \in Keys |-> Absent]

IsDict(v) == v.t = "dict"
IsList(v) == v.t = "list"
IsStr(v) == v.t = "str"

\* `key in d` for a mapping d
HasKey(d, key) == d.f[key] # Absent

\* d.get(key): None when the key is missing
Get(d, key) == IF HasKey(d, key) THEN d.f[key] ELSE Null

(* Object references.  `data` hands out the parsed envelope itself or one  *)
(* of the elements of its "data" list, never a copy, so what it returns is *)
(* modelled as a reference.                                                *)
None == [t |-> "None"]
Root == [t |-> "root"]
Item(i) == [t |-> "item", idx |-> i]

Deref(r) ==
    IF r = Root THEN _parsed_json
    ELSE IF r = None THEN Null
    ELSE _parsed_json.f["data"].items[r.idx]

---------------------------------------------------------------------------
(* Regular expressions: the part of Python's `re` the matcher uses, over   *)
(* PatChars.  A pattern string is a sequence of characters; "." matches    *)
(* any character and "*" repeats the item before it.                       *)

StrChars == {"a", "b"}
PatChars == {"a", "b", ".", "*"}

RECURSIVE ParseFrom(_, _, _)
\* re.compile's parser from position i on, with the items parsed so far.
\* A "*" with nothing before it ("nothing to repeat") or right after
\* another "*" ("multiple repeat") makes re.compile raise re.error.
ParseFrom(p, i, toks) ==
    IF i > Len(p) THEN [ok |-> TRUE, toks |-> toks]
    ELSE IF p[i] = "*"
         THEN IF toks = <<>> \/ toks[Len(toks)].star
              THEN [ok |-> FALSE, toks |-> <<>>]
              ELSE ParseFrom(p, i + 1, [toks EXCEPT ![Len(toks)].star = TRUE])
         ELSE ParseFrom(p, i + 1, Append(toks, [c |-> p[i], star |-> FALSE]))

\* re.compile(pattern): ok is FALSE when it raises re.error
re_compile(pattern) == ParseFrom(pattern, 1, <<>>)

AtomMatches(c, ch) == c = "." \/ c = ch

RECURSIVE MatchFrom(_, _, _, _, _)
\* The backtracking matcher: items k.. of toks against s from position j.
\* With toEnd the match must end at the end of s (fullmatch); without it
\* the match may end anywhere (match).
MatchFrom(toks, k, s, j, toEnd) ==
    IF k > Len(toks) THEN (~toEnd \/ j > Len(s))
    ELSE IF toks[k].star
         THEN \/ /\ j <= Len(s)
                 /\ AtomMatches(toks[k].c, s[j])
                 /\ MatchFrom(toks, k, s, j + 1, toEnd)
              \/ MatchFrom(toks, k + 1, s, j, toEnd)
         ELSE /\ j <= Len(s)
              /\ AtomMatches(toks[k].c, s[j])
              /\ MatchFrom(toks, k + 1, s, j + 1, toEnd)

\* The answer of a call: "T" (true), "F" (false) or "R" (it raised).
\* bool(compiled_pattern.match(v)): anchored at the start only; TypeError
\* when v is no string
re_match(toks, v) ==
    IF v.t # "str" THEN "R"
    ELSE IF MatchFrom(toks, 1, v.s, 1, FALSE) THEN "T" ELSE "F"

\* bool(compiled_pattern.fullmatch(v)): a match object is always truthy;
\* TypeError when v is no string
re_fullmatch(toks, v) ==
    IF v.t # "str" THEN "R"
    ELSE IF MatchFrom(toks, 1, v.s, 1, TRUE) THEN "T" ELSE "F"

---------------------------------------------------------------------------
(* _default_unpacking_match and the predicates a caller may supply *)

NoFunc == [kind |-> "unset"]
CompileError == [kind |-> "re.error"]

\* mutant: the pattern is anchored at the start only (match, not fullmatch)
match_func_prefix(toks, data) ==
    IF ~HasKey(data, "DATA_TYPE") THEN "F"
    ELSE IF ~IsStr(data.f["DATA_TYPE"]) THEN "F"
    ELSE re_match(toks, data.f["DATA_TYPE"])

\* mutant: the value of DATA_TYPE is handed to the pattern whatever it is
match_func_untyped(toks, data) ==
    IF ~HasKey(data, "DATA_TYPE") THEN "F"
    ELSE re_fullmatch(toks, data.f["DATA_TYPE"])

\* match_func(data), the closure over compiled_pattern
match_func(toks, data) ==
    IF ~HasKey(data, "DATA_TYPE") THEN "F"
    ELSE IF ~IsStr(data.f["DATA_TYPE"]) THEN "F"
    ELSE re_fullmatch(toks, data.f["DATA_TYPE"])

\* mutant: a pattern that does not compile yields a matcher all the same,
\* so the error is not raised where the wrapper is constructed
_default_unpacking_match_swallow(pattern) ==
    LET c == re_compile(pattern)
    IN  [kind |-> "compiled", toks |-> c.toks]

\* _default_unpacking_match(pattern): the closure, or re.error raised by
\* re.compile before any closure exists
_default_unpacking_match(pattern) ==
    LET c == re_compile(pattern)
    IN  IF c.ok THEN [kind |-> "compiled", toks |-> c.toks] ELSE CompileError

\* A `match` argument: a pattern string or a callable.  A callable is
\*   "pure"     a function of the mapping's value: true on `accepts`
\*   "nondet"   answers true or false as it likes, call by call
\*   "raising"  as nondet, and it may raise instead of answering
Pattern(p) == [kind |-> "pattern", pat |-> p]
Callable(mode, accepts) == [kind |-> "callable", mode |-> mode, accepts |-> accepts]

callable(m) == m.kind = "callable"

\* What one call of predicate mf on value v can do: "T", "F", or "R" (raise).
\* The closure of the default matcher is handed mappings only; on a string
\* its `in` test is a substring test (false), on other values a TypeError.
Answers(mf, v) ==
    IF mf.kind = "compiled"
    THEN IF IsDict(v) THEN {match_func(mf.toks, v)}
         ELSE IF IsStr(v) THEN {"F"} ELSE {"R"}
    ELSE IF mf.mode = "pure" THEN {IF v \in mf.accepts THEN "T" ELSE "F"}
    ELSE IF mf.mode = "nondet" THEN {"T", "F"}
    ELSE {"T", "F", "R"}

---------------------------------------------------------------------------
(* The inputs drawn *)

RECURSIVE SeqsUpTo(_, _)
\* the sequences over S of length at most n
SeqsUpTo(S, n) ==
    IF n = 0 THEN {<<>>}
    ELSE LET shorter == SeqsUpTo(S, n - 1)
         IN  shorter \cup {Append(q, x) : q \in {r \in shorter : Len(r) = n - 1}, x \in S}

\* The elements a "data" list is built from: a string (no mapping), an
\* empty mapping and two tagged documents.  ElemNum, a mapping whose
\* DATA_TYPE is a number, is handed to the default matcher in SpecMatch.
ElemStr == Str(<<"a">>)
ElemEmpty == Dict(NoKeys)
ElemNum == Dict([NoKeys EXCEPT !["DATA_TYPE"] = Num(123)])
ElemA == Dict([NoKeys EXCEPT !["DATA_TYPE"] = Str(<<"a">>),
                             !["display_name"] = Str(<<"b", "a">>)])
ElemB == Dict([NoKeys EXCEPT !["DATA_TYPE"] = Str(<<"b">>),
                             !["detail"] = Str(<<"b">>)])

DictElems == {ElemEmpty, ElemA, ElemB}
Elems == {ElemStr} \cup DictElems

\* {"DATA_TYPE": "result", "detail": "success", "data": <d>}; the tag and
\* the detail are written with the two characters of StrChars
Envelope(d) == Dict([NoKeys EXCEPT !["DATA_TYPE"] = Str(<<"b", "b">>),
                                  !["detail"] = Str(<<"a", "a">>),
                                  !["data"] = d])

\* a flat document, with no "data" key
Flat == ElemA

\* The parsed bodies: no JSON at all, JSON that is no mapping, a flat
\* document, an envelope whose "data" is no list, and the envelopes over
\* every list of at most n elements.
Bodies(n) ==
    {Null, Str(<<"a">>), List(<<ElemA>>), Flat, Envelope(Str(<<"a">>)), Envelope(ElemA)}
        \cup {Envelope(List(q)) : q \in SeqsUpTo(Elems, n)}

\* The pattern strings drawn in Spec and SpecMT: two tags, any tag, and
\* two that do not compile.
SamplePatterns == {<<"a">>, <<"b">>, <<".", "*">>, <<"*">>, <<"a", "*", "*">>}

PureCallables == {Callable("pure", A) : A \in SUBSET DictElems}

Matches ==
    {Pattern(p) : p \in SamplePatterns}
        \cup PureCallables
        \cup {Callable("nondet", {}), Callable("raising", {})}

\* the predicates that answer the same on the same mapping, every time
Deterministic(m) == m.kind = "pattern" \/ m.mode = "pure"

\* the predicates that always answer (true or false)
Total(m) == m.kind = "pattern" \/ m.mode # "raising"

---------------------------------------------------------------------------
(* UnpackingGCSResponse._unpack *)

\* The answers the predicate gives in one scan: one per element (only
\* those of the elements it is applied to are used).
RECURSIVE OraclesUpTo(_, _, _)
\* For a predicate that answers as it likes, an answer is drawn for element
\* n only when no earlier answer was "T" or "R": a scan asks for nothing
\* after the call that ends it.
OraclesUpTo(mf, items, n) ==
    IF n = 0 THEN {<<>>}
    ELSE UNION {
            IF mf.kind = "callable" /\ mf.mode # "pure" /\ \E i \in 1..(n - 1) : o[i] # "F"
            THEN {Append(o, "F")}
            ELSE {Append(o, a) : a \in Answers(mf, items[n])}
         : o \in OraclesUpTo(mf, items, n - 1)}

Oracles(mf, items) == OraclesUpTo(mf, items, Len(items))

RECURSIVE ScanFrom(_, _, _, _)
\* the for loop of _unpack from element i on; log holds the calls made
ScanFrom(items, o, i, log) ==
    IF i > Len(items) THEN [ret |-> None, log |-> log, raised |-> FALSE]
    ELSE IF IsDict(items[i])
         THEN LET log2 == Append(log, <<i, o[i]>>)
              IN  IF o[i] = "R" THEN [ret |-> None, log |-> log2, raised |-> TRUE]
                  ELSE IF o[i] = "T" THEN [ret |-> Item(i), log |-> log2, raised |-> FALSE]
                  ELSE ScanFrom(items, o, i + 1, log2)
         ELSE ScanFrom(items, o, i + 1, log)

\* the "data" list when the body has the shape _unpack looks into
HasDataList(pj) == IsDict(pj) /\ IsList(Get(pj, "data"))
DataItems(pj) == IF HasDataList(pj) THEN pj.f["data"].items ELSE <<>>

RECURSIVE ScanLast(_, _, _, _, _)
ScanLast(items, o, i, log, found) ==
    IF i > Len(items) THEN [ret |-> found, log |-> log, raised |-> FALSE]
    ELSE IF IsDict(items[i])
         THEN LET log2 == Append(log, <<i, o[i]>>)
              IN  IF o[i] = "R" THEN [ret |-> None, log |-> log2, raised |-> TRUE]
                  ELSE ScanLast(items, o, i + 1, log2, IF o[i] = "T" THEN Item(i) ELSE found)
         ELSE ScanLast(items, o, i + 1, log, found)

\* mutant: the loop does not return at the first match, and the last wins
_unpack_last(o) ==
    IF IsDict(_parsed_json) /\ IsList(Get(_parsed_json, "data"))
    THEN ScanLast(_parsed_json.f["data"].items, o, 1, <<>>, None)
    ELSE [ret |-> None, log |-> <<>>, raised |-> FALSE]

RECURSIVE ScanAny(_, _, _, _)
ScanAny(items, o, i, log) ==
    IF i > Len(items) THEN [ret |-> None, log |-> log, raised |-> FALSE]
    ELSE LET log2 == Append(log, <<i, o[i]>>)
         IN  IF o[i] = "R" THEN [ret |-> None, log |-> log2, raised |-> TRUE]
             ELSE IF o[i] = "T" THEN [ret |-> Item(i), log |-> log2, raised |-> FALSE]
             ELSE ScanAny(items, o, i + 1, log2)

\* mutant: the predicate is applied to every element, mapping or not
_unpack_untyped(o) ==
    IF IsDict(_parsed_json) /\ IsList(Get(_parsed_json, "data"))
    THEN ScanAny(_parsed_json.f["data"].items, o, 1, <<>>)
    ELSE [ret |-> None, log |-> <<>>, raised |-> FALSE]

\* _unpack() under the answers o
_unpack(o) ==
    IF IsDict(_parsed_json) /\ IsList(Get(_parsed_json, "data"))
    THEN ScanFrom(_parsed_json.f["data"].items, o, 1, <<>>)
    ELSE [ret |-> None, log |-> <<>>, raised |-> FALSE]

---------------------------------------------------------------------------
(* UnpackingGCSResponse.data *)

\* mutant: `if self._unpacked_data:`, which an empty mapping fails
Resolve_truthy(unpacked) ==
    IF unpacked # None /\ Deref(unpacked) # Dict(NoKeys) THEN unpacked ELSE Root

\* mutant: the envelope is returned whatever was unpacked
Resolve_envelope(unpacked) == Root

\* what the last three lines of `data` return
Resolve(unpacked) == IF unpacked # None THEN unpacked ELSE Root

\* mutant: the cached value doubles as the flag, so "no match" is not
\* remembered
data_forgets_miss(o) ==
    IF ~_did_unpack
    THEN LET u == _unpack(o)
         IN  IF u.raised
             THEN [did |-> _did_unpack, unpacked |-> _unpacked_data,
                   scans |-> scans + 1, calls |-> u.log,
                   outcome |-> "raise", ref |-> None]
             ELSE [did |-> u.ret # None, unpacked |-> u.ret,
                   scans |-> scans + 1, calls |-> u.log,
                   outcome |-> "return", ref |-> Resolve(u.ret)]
    ELSE [did |-> _did_unpack, unpacked |-> _unpacked_data,
          scans |-> scans, calls |-> calls,
          outcome |-> "return", ref |-> Resolve(_unpacked_data)]

\* mutant: the flag is set before the scan, so it stays set when the
\* predicate raises
data_flag_first(o) ==
    IF ~_did_unpack
    THEN LET u == _unpack(o)
         IN  IF u.raised
             THEN [did |-> TRUE, unpacked |-> _unpacked_data,
                   scans |-> scans + 1, calls |-> u.log,
                   outcome |-> "raise", ref |-> None]
             ELSE [did |-> TRUE, unpacked |-> u.ret,
                   scans |-> scans + 1, calls |-> u.log,
                   outcome |-> "return", ref |-> Resolve(u.ret)]
    ELSE [did |-> _did_unpack, unpacked |-> _unpacked_data,
          scans |-> scans, calls |-> calls,
          outcome |-> "return", ref |-> Resolve(_unpacked_data)]

\* The `data` property under the answers o: the fields after the call, the
\* scan it ran (if it ran one), and what the caller gets.
data(o) ==
    IF ~_did_unpack
    THEN LET u == _unpack(o)
         IN  IF u.raised
             THEN [did |-> _did_unpack, unpacked |-> _unpacked_data,
                   scans |-> scans + 1, calls |-> u.log,
                   outcome |-> "raise", ref |-> None]
             ELSE [did |-> TRUE, unpacked |-> u.ret,
                   scans |-> scans + 1, calls |-> u.log,
                   outcome |-> "return", ref |-> Resolve(u.ret)]
    ELSE [did |-> _did_unpack, unpacked |-> _unpacked_data,
          scans |-> scans, calls |-> calls,
          outcome |-> "return", ref |-> Resolve(_unpacked_data)]


\* mutant: full_data is an alias of data
full_data_unpacks(o) == data(o)

\* The `full_data` property: returns self._parsed_json and touches nothing.
\* (It takes the answers o only so that it has the shape of `data`.)
full_data(o) ==
    [did |-> _did_unpack, unpacked |-> _unpacked_data,
     scans |-> scans, calls |-> calls,
     outcome |-> "return", ref |-> Root]

\* GlobusHTTPResponse.__getitem__(key): evaluates self.data, then looks
\* the key up in what it got.  A missing key, or data that is no mapping,
\* raises ("lookup").
__getitem__(o, key) ==
    LET r == data(o)
        v == Deref(r.ref)
    IN  IF r.outcome = "raise" THEN [r EXCEPT !.outcome = "raise"] @@ [val |-> Absent]
        ELSE IF IsDict(v) /\ HasKey(v, key) THEN r @@ [val |-> v.f[key]]
        ELSE [r EXCEPT !.outcome = "lookup"] @@ [val |-> Absent]

---------------------------------------------------------------------------
(* The wrapper with one caller: every handler is one action *)

Threads == {"t1", "t2"}

NoOp == [op |-> "none", outcome |-> "return", key |-> "", ref |-> None, val |-> Absent]

InitObject ==
    /\ obj = "new"
    /\ _match_func = NoFunc
    /\ _unpacked_data = None
    /\ _did_unpack = FALSE
    /\ scans = 0
    /\ calls = <<>>
    /\ first = None
    /\ accesses = 0
    /\ raises = 0
    /\ last = NoOp
    /\ pc = [t \in Threads |-> "idle"]
    /\ local = [t \in Threads |-> None]
    /\ m_result = "none"

Init ==
    /\ _parsed_json \in Bodies(MaxItems)
    /\ match \in Matches
    /\ m_item = Absent
    /\ InitObject

\* UnpackingGCSResponse.__init__(response, match)
__init__ ==
    /\ obj = "new"
    /\ LET f == IF callable(match) THEN match ELSE _default_unpacking_match(match.pat)
       IN  IF f = CompileError
           THEN /\ obj' = "failed"
                /\ last' = [NoOp EXCEPT !.op = "__init__", !.outcome = "re.error"]
                /\ UNCHANGED <<_match_func, _unpacked_data, _did_unpack>>
           ELSE /\ obj' = "live"
                /\ _match_func' = f
                /\ _unpacked_data' = None
                /\ _did_unpack' = FALSE
                /\ last' = [NoOp EXCEPT !.op = "__init__"]
    /\ UNCHANGED <<_parsed_json, match, scans, calls, first, accesses, raises,
                   pc, local, m_item, m_result>>

\* the fields and the history after a property or item access gave r
Access(r, counted) ==
    /\ _did_unpack' = r.did
    /\ _unpacked_data' = r.unpacked
    /\ scans' = r.scans
    /\ calls' = r.calls
    /\ first' = IF counted /\ r.outcome # "raise" /\ first = None THEN r.ref ELSE first
    /\ accesses' = IF counted THEN accesses + 1 ELSE accesses
    /\ raises' = IF r.outcome = "raise" THEN raises + 1 ELSE raises
    /\ UNCHANGED <<_parsed_json, match, obj, _match_func, pc, local, m_item, m_result>>

\* a caller reads response.data
Data ==
    /\ obj = "live"
    /\ accesses < MaxAccesses
    /\ \E o \in Oracles(_match_func, DataItems(_parsed_json)) :
          LET r == data(o)
          IN  /\ Access(r, TRUE)
              /\ last' = [op |-> "data",
                          outcome |-> IF r.outcome = "raise" THEN "predicate" ELSE "return",
                          key |-> "", ref |-> r.ref,
                          val |-> IF r.outcome = "raise" THEN Absent ELSE Deref(r.ref)]

\* a caller reads response.full_data
FullData ==
    /\ obj = "live"
    /\ \E o \in Oracles(_match_func, DataItems(_parsed_json)) :
          LET r == full_data(o)
          IN  /\ Access(r, FALSE)
              /\ last' = [op |-> "full_data",
                          outcome |-> IF r.outcome = "raise" THEN "predicate" ELSE "return",
                          key |-> "", ref |-> r.ref,
                          val |-> IF r.outcome = "raise" THEN Absent ELSE Deref(r.ref)]

\* a caller reads response[key]
GetItem(key) ==
    /\ obj = "live"
    /\ accesses < MaxAccesses
    /\ \E o \in Oracles(_match_func, DataItems(_parsed_json)) :
          LET r == __getitem__(o, key)
          IN  /\ Access(r, TRUE)
              /\ last' = [op |-> "__getitem__",
                          outcome |-> IF r.outcome = "raise" THEN "predicate" ELSE r.outcome,
                          key |-> key, ref |-> r.ref, val |-> r.val]

Next ==
    \/ __init__
    \/ Data
    \/ FullData
    \/ \E key \in Keys : GetItem(key)

Spec == Init /\ [][Next]_vars

---------------------------------------------------------------------------
(* The default matcher alone: a pattern is compiled by __init__, then the  *)
(* closure is applied to one mapping.                                      *)

TagStrings == SeqsUpTo(StrChars, MaxStrLen)

MatchItems ==
    {ElemEmpty, ElemNum, Dict([NoKeys EXCEPT !["DATA_TYPE"] = Null])}
        \cup {Dict([NoKeys EXCEPT !["DATA_TYPE"] = Str(s)]) : s \in TagStrings}

InitMatch ==
    /\ _parsed_json = Null
    /\ match \in {Pattern(p) : p \in SeqsUpTo(PatChars, MaxPatLen)}
    /\ m_item \in MatchItems
    /\ InitObject

\* self._match_func(item) with the closure of the default matcher
ApplyMatch ==
    /\ obj = "live"
    /\ _match_func.kind = "compiled"
    /\ m_result = "none"
    /\ m_result' = match_func(_match_func.toks, m_item)
    /\ UNCHANGED <<_parsed_json, match, obj, _match_func, _unpacked_data, _did_unpack,
                   scans, calls, first, accesses, raises, last, pc, local, m_item>>

NextMatch ==
    \/ __init__
    \/ ApplyMatch

SpecMatch == InitMatch /\ [][NextMatch]_vars

---------------------------------------------------------------------------
(* Two threads in the `data` property of one wrapper, with no lock: every  *)
(* read or write of an attribute is a step of its own.  pc[t] is           *)
(*   "idle"    before the access          "test"      at line 95           *)
(*   "unpack"  at the call on line 92     "unpacked"  at line 96           *)
(*   "store"   at the store of line 92    "fallback"  at line 97           *)
(*   "flag"    at line 93                 "done"      returned local[t]    *)

InitMT ==
    /\ _parsed_json \in Bodies(MaxItemsMT)
    /\ match \in {m \in Matches : Deterministic(m)}
    /\ m_item = Absent
    /\ InitObject

MTFrame == UNCHANGED <<_parsed_json, match, obj, _match_func, first, accesses, raises,
                       last, m_item, m_result>>

\* mutant: the flag is set as soon as it was found unset, before the scan
T_enter_flagfirst(t) ==
    /\ obj = "live"
    /\ pc[t] = "idle"
    /\ pc' = [pc EXCEPT ![t] = IF ~_did_unpack THEN "unpack" ELSE "test"]
    /\ _did_unpack' = TRUE
    /\ UNCHANGED <<_unpacked_data, scans, calls, local>>
    /\ MTFrame

\* line 91: if not self._did_unpack
T_enter(t) ==
    /\ obj = "live"
    /\ pc[t] = "idle"
    /\ pc' = [pc EXCEPT ![t] = IF ~_did_unpack THEN "unpack" ELSE "test"]
    /\ UNCHANGED <<_unpacked_data, _did_unpack, scans, calls, local>>
    /\ MTFrame

\* line 92, the call: self._unpack() reads the parsed body alone
T_unpack(t) ==
    /\ pc[t] = "unpack"
    /\ \E o \in Oracles(_match_func, DataItems(_parsed_json)) :
          LET u == _unpack(o)
          IN  /\ local' = [local EXCEPT ![t] = u.ret]
              /\ scans' = scans + 1
              /\ calls' = u.log
    /\ pc' = [pc EXCEPT ![t] = "store"]
    /\ UNCHANGED <<_unpacked_data, _did_unpack>>
    /\ MTFrame

\* line 92, the store: self._unpacked_data = <result>
T_store(t) ==
    /\ pc[t] = "store"
    /\ _unpacked_data' = local[t]
    /\ pc' = [pc EXCEPT ![t] = "flag"]
    /\ UNCHANGED <<_did_unpack, scans, calls, local>>
    /\ MTFrame

\* line 93: self._did_unpack = True
T_flag(t) ==
    /\ pc[t] = "flag"
    /\ _did_unpack' = TRUE
    /\ pc' = [pc EXCEPT ![t] = "test"]
    /\ UNCHANGED <<_unpacked_data, scans, calls, local>>
    /\ MTFrame

\* line 95: if self._unpacked_data is not None
T_test(t) ==
    /\ pc[t] = "test"
    /\ pc' = [pc EXCEPT ![t] = IF _unpacked_data # None THEN "unpacked" ELSE "fallback"]
    /\ UNCHANGED <<_unpacked_data, _did_unpack, scans, calls, local>>
    /\ MTFrame

\* line 96: return self._unpacked_data (read again)
T_return_unpacked(t) ==
    /\ pc[t] = "unpacked"
    /\ local' = [local EXCEPT ![t] = _unpacked_data]
    /\ pc' = [pc EXCEPT ![t] = "done"]
    /\ UNCHANGED <<_unpacked_data, _did_unpack, scans, calls>>
    /\ MTFrame

\* line 97: return self._parsed_json
T_return_full(t) ==
    /\ pc[t] = "fallback"
    /\ local' = [local EXCEPT ![t] = Root]
    /\ pc' = [pc EXCEPT ![t] = "done"]
    /\ UNCHANGED <<_unpacked_data, _did_unpack, scans, calls>>
    /\ MTFrame

NextMT ==
    \/ __init__
    \/ \E t \in Threads :
          \/ T_enter(t)
          \/ T_unpack(t)
          \/ T_store(t)
          \/ T_flag(t)
          \/ T_test(t)
          \/ T_return_unpacked(t)
          \/ T_return_full(t)

SpecMT == InitMT /\ [][NextMT]_vars

---------------------------------------------------------------------------
(* What the claims are stated with: the language of a pattern and the      *)
(* first match of a body, defined without the matcher and without the scan *)

\* A pattern string is well formed when no "*" stands first or right after
\* another "*".
ValidPattern(p) ==
    \A i \in 1..Len(p) : p[i] = "*" => (i > 1 /\ p[i - 1] # "*")

\* The positions of p that hold an item (a character or "."), and whether
\* the item at position i is repeated.
AtomPositions(p) == {i \in 1..Len(p) : p[i] # "*"}
AtomAt(p, k) == CHOOSE i \in AtomPositions(p) :
                    Cardinality({j \in AtomPositions(p) : j <= i}) = k
Starred(p, i) == i < Len(p) /\ p[i + 1] = "*"

\* s is in the language of the well-formed pattern p: s can be cut into
\* one piece per item of p, a piece of one matching character for a plain
\* item and of any number of matching characters for a repeated one.
InLang(p, s) ==
    LET n == Cardinality(AtomPositions(p))
    IN  \E cut \in [0..n -> 0..Len(s)] :
            /\ cut[0] = 0
            /\ cut[n] = Len(s)
            /\ \A k \in 1..n :
                  LET i == AtomAt(p, k)
                  IN  /\ cut[k - 1] <= cut[k]
                      /\ Starred(p, i) \/ cut[k] = cut[k - 1] + 1
                      /\ \A j \in (cut[k - 1] + 1)..cut[k] : p[i] = "." \/ p[i] = s[j]

\* mapping d satisfies the deterministic predicate given as m
Satisfies(m, d) ==
    IF m.kind = "pattern"
    THEN /\ HasKey(d, "DATA_TYPE")
         /\ IsStr(d.f["DATA_TYPE"])
         /\ InLang(m.pat, d.f["DATA_TYPE"].s)
    ELSE d \in m.accepts

Items == DataItems(_parsed_json)
DictIndices == {i \in 1..Len(Items) : IsDict(Items[i])}
Min(S) == CHOOSE i \in S : \A j \in S : i <= j

\* the indices of the mappings that satisfy a deterministic `match`
Matching == {i \in DictIndices : Satisfies(match, Items[i])}
FirstMatch == IF Matching = {} THEN None ELSE Item(Min(Matching))

CallIndices == {calls[k][1] : k \in 1..Len(calls)}
Answered(i, a) == \E k \in 1..Len(calls) : calls[k] = <<i, a>>

---------------------------------------------------------------------------
(* The claims *)

\* C5: the predicate built by _default_unpacking_match(pattern) answers
\* true for a mapping exactly when the mapping has a "DATA_TYPE" key whose
\* value is a string that, as a whole, is in the language of the pattern;
\* on a missing or non-string "DATA_TYPE" it answers false, and it never
\* raises.
C5_DefaultMatcherIsFullMatch ==
    m_result # "none" =>
        /\ m_result \in {"T", "F"}
        /\ m_result = "T" <=>
              /\ HasKey(m_item, "DATA_TYPE")
              /\ IsStr(m_item.f["DATA_TYPE"])
              /\ InLang(match.pat, m_item.f["DATA_TYPE"].s)

\* a pattern that matches a proper prefix of the tag, and not the tag, was
\* applied
C5_Witness ==
    /\ m_result = "F"
    /\ match.pat = <<"a", "*">>
    /\ m_item = Dict([NoKeys EXCEPT !["DATA_TYPE"] = Str(<<"a", "a", "b">>)])


\* C1: when the body is a mapping whose "data" is a list, the first access
\* to `data` returns the lowest-index element that is a mapping and
\* satisfies the predicate: elements before it that are no mappings or do
\* not match do not stop the scan, and a later element that matches too
\* is never returned.  (For a predicate that answers as it likes, the
\* element returned is the first mapping the predicate said yes to.)
C1_FirstMatchWins ==
    (HasDataList(_parsed_json) /\ Total(match) /\ first # None) =>
        /\ (Deterministic(match) /\ Matching # {}) => first = Item(Min(Matching))
        /\ first # Root =>
              /\ first.idx \in DictIndices
              /\ calls[Len(calls)] = <<first.idx, "T">>
              /\ \A j \in DictIndices : j < first.idx => Answered(j, "F")

\* the first element is no mapping, the match has index 2 or more, and a
\* later element matches as well
C1_Witness ==
    /\ Deterministic(match)
    /\ accesses = 1
    /\ Len(Items) >= 3
    /\ ~IsDict(Items[1])
    /\ Cardinality(Matching) >= 2
    /\ first = Item(Min(Matching))
    /\ last.op = "data"

\* what `no match` means: the body is null or no mapping, it has no "data"
\* key, its "data" is no list, or no mapping in the list satisfied the
\* predicate (for a predicate that answers as it likes: in the scan that
\* completed)
NoMatch ==
    \/ ~IsDict(_parsed_json)
    \/ ~HasKey(_parsed_json, "data")
    \/ ~IsList(_parsed_json.f["data"])
    \/ IF Deterministic(match) THEN Matching = {}
       ELSE \A k \in 1..Len(calls) : calls[k][2] # "T"

\* C2: what `data` returns is the matched element of the "data" list or
\* the parsed body itself, and it is the body itself (the same object,
\* its own keys visible) exactly when there is no match.
C2_DataIsMatchOrFullData ==
    (last.op = "data" /\ last.outcome = "return") =>
        /\ \/ last.ref = Root
           \/ /\ last.ref \in {Item(i) : i \in DictIndices}
              /\ IF Deterministic(match) THEN last.ref.idx \in Matching
                 ELSE Answered(last.ref.idx, "T")
        /\ last.ref = Root <=> NoMatch
        /\ last.val = Deref(last.ref)
        /\ last.ref = Root => last.val = _parsed_json

\* an envelope with mappings in its list, none of which matched: `data` is
\* the envelope, "data" and "detail" included
C2_Witness ==
    /\ last.op = "data"
    /\ last.ref = Root
    /\ DictIndices # {}
    /\ HasKey(last.val, "data")
    /\ HasKey(last.val, "detail")

\* C3: for a predicate that always answers, the scan runs at most once:
\* not at construction and not for full_data, once in the first `data` or
\* item access, never again; the outcome is remembered also when it is "no
\* match"; and every `data` access returns what the first one resolved to,
\* even when the predicate answers as it likes.
C3_ScanAtMostOnce ==
    Total(match) =>
        /\ scans <= 1
        /\ accesses = 0 => (scans = 0 /\ calls = <<>> /\ ~_did_unpack)
        /\ accesses >= 1 => (scans = 1 /\ _did_unpack /\ first # None)
        /\ (last.op = "data" /\ accesses >= 1) =>
              (last.outcome = "return" /\ last.ref = first)

\* a second access under a predicate that answers as it likes, after a
\* first one that found no match among the mappings
C3_Witness ==
    /\ callable(match) /\ match.mode = "nondet"
    /\ accesses = 2
    /\ last.op = "data"
    /\ DictIndices # {}
    /\ _unpacked_data = None
    /\ scans = 1

\* the mapping `data` resolves to, for a deterministic predicate
View == IF FirstMatch # None THEN Deref(FirstMatch) ELSE _parsed_json

\* C4: response[key] reads from the mapping `data` resolves to: the value
\* of the matched element for key when an element matches, full_data[key]
\* when none does; and an item access on an unset wrapper unpacks and
\* memoizes as a `data` access does.
C4_GetItemReadsData ==
    (last.op = "__getitem__" /\ last.outcome # "predicate") =>
        /\ _did_unpack
        /\ scans >= 1
        /\ last.ref = first
        /\ first = Resolve(_unpacked_data)
        /\ Deterministic(match) => (_unpacked_data = FirstMatch /\ scans = 1)
        /\ LET view == IF Deterministic(match) THEN View ELSE Deref(first)
           IN  IF IsDict(view) /\ HasKey(view, last.key)
               THEN last.outcome = "return" /\ last.val = view.f[last.key]
               ELSE last.outcome = "lookup"

\* the first access is response["DATA_TYPE"], and it is the tag of the
\* matched element, not the tag of the envelope
C4_Witness ==
    /\ last.op = "__getitem__"
    /\ last.key = "DATA_TYPE"
    /\ accesses = 1
    /\ last.outcome = "return"
    /\ last.val # _parsed_json.f["DATA_TYPE"]
    /\ last.ref # Root

\* C6: for a pattern string that is no valid regular expression, __init__
\* raises the compilation error: no wrapper exists, unset or computed, and
\* no access or scan ever happens.
C6_InvalidPatternFailsAtInit ==
    (match.kind = "pattern" /\ ~ValidPattern(match.pat)) =>
        /\ obj \in {"new", "failed"}
        /\ obj = "failed" <=> (last.op = "__init__" /\ last.outcome = "re.error")
        /\ last.op \in {"none", "__init__"}
        /\ _match_func = NoFunc
        /\ accesses = 0 /\ scans = 0 /\ ~_did_unpack

\* the constructor was run on an invalid pattern
C6_Witness ==
    /\ match.kind = "pattern"
    /\ ~ValidPattern(match.pat)
    /\ obj = "failed"

\* C7: full_data is a pure read: a step that reads it returns the parsed
\* body and changes neither the flag, nor the cached value, nor the calls
\* made to the predicate; and no step at all changes the parsed body.
C7_FullDataIsPureRead ==
    [][/\ _parsed_json' = _parsed_json
       /\ last'.op = "full_data" =>
             /\ last'.outcome = "return"
             /\ last'.ref = Root
             /\ last'.val = _parsed_json
             /\ _did_unpack' = _did_unpack
             /\ _unpacked_data' = _unpacked_data
             /\ scans' = scans
             /\ calls' = calls]_vars

\* full_data was read on an unset wrapper whose list holds a match, and
\* the wrapper is still unset
C7_Witness ==
    /\ last.op = "full_data"
    /\ last.val = _parsed_json
    /\ ~_did_unpack
    /\ Deterministic(match)
    /\ Matching # {}

\* where a completed scan stops: at the first match, or at the end
StopIndex ==
    IF Deterministic(match)
    THEN IF Matching = {} THEN Len(Items) ELSE Min(Matching)
    ELSE IF calls # <<>> /\ calls[Len(calls)][2] = "T"
         THEN calls[Len(calls)][1] ELSE Len(Items)

\* C8: the scan applies the predicate, in increasing index order, to
\* exactly the mappings of the list up to and including the first match
\* (to all of them when none matches): never to an element that is no
\* mapping, never to one after the first match.
C8_PredicateCallsOfScan ==
    (Total(match) /\ scans >= 1) =>
        /\ \A k \in 1..(Len(calls) - 1) : calls[k][1] < calls[k + 1][1]
        /\ CallIndices = {i \in DictIndices : i <= StopIndex}
        /\ \A k \in 1..Len(calls) : calls[k][2] = "T" => k = Len(calls)
        /\ Deterministic(match) =>
              \A k \in 1..Len(calls) : calls[k][2] = "T" <=> calls[k][1] \in Matching

\* a scan that skipped an element that is no mapping, asked about a
\* mapping that did not match, and stopped at a match before the end
C8_Witness ==
    /\ scans = 1
    /\ Len(calls) >= 1
    /\ calls[Len(calls)][2] = "T"
    /\ StopIndex < Len(Items)
    /\ \E i \in 1..StopIndex : ~IsDict(Items[i])

\* C9: when the predicate raises during a `data` access the exception
\* reaches the caller and the wrapper stays unset (flag false, cached
\* value None); the next access scans again from the first element.  The
\* flag is set only by a scan that completed: every access made while
\* unset ran one scan, and all but a completed one raised.
C9_RaisingPredicateLeavesUnset ==
    /\ (last.outcome = "predicate") =>
          /\ ~_did_unpack /\ _unpacked_data = None
          /\ calls # <<>> /\ calls[Len(calls)][2] = "R"
    /\ ~_did_unpack => (_unpacked_data = None /\ scans = raises /\ accesses = raises)
    /\ _did_unpack => (scans = raises + 1 /\ (\A k \in 1..Len(calls) : calls[k][2] # "R"))
    /\ (scans >= 1 /\ DictIndices # {}) => (calls # <<>> /\ calls[1][1] = Min(DictIndices))

\* an access in which the predicate raised after answering, followed by
\* an access whose scan completed with a match
C9_Witness ==
    /\ raises = 1
    /\ accesses = 2
    /\ _did_unpack
    /\ _unpacked_data # None
    /\ Len(calls) >= 2


\* what a single caller gets from `data` under a deterministic predicate
ExpectedData == IF FirstMatch # None THEN FirstMatch ELSE Root

\* C10: two threads in `data` on one unset wrapper, with no lock and a
\* deterministic predicate: both may run the scan, yet every thread
\* returns what a single caller would get, the flag is set once a thread
\* has passed the scan, and the cached value is never anything but None or
\* the first match.
C10_RaceOnlyDuplicatesWork ==
    /\ \A t \in Threads : pc[t] = "done" => local[t] = ExpectedData
    /\ \A t \in Threads : pc[t] \in {"test", "unpacked", "fallback", "done"} => _did_unpack
    /\ _unpacked_data \in {None, FirstMatch}
    /\ _did_unpack => _unpacked_data = FirstMatch

\* both threads found the flag unset, both ran the scan, and both have
\* returned the first match of a list with two matches
C10_Witness ==
    /\ scans = 2
    /\ \A t \in Threads : pc[t] = "done" /\ local[t] = FirstMatch
    /\ Cardinality(Matching) >= 2

===========================================================================
